---- MODULE Spec2Model ----
(***************************************************************************)
(* Model of the tl;dv MCP server: the API client (src/api/tldv-api.ts),    *)
(* its parameter schemas (src/api/schemas.ts) and the tool adapter         *)
(* (src/index.ts).                                                         *)
(*                                                                         *)
(* JavaScript values are records tagged by `kind`; an object is a function *)
(* from the keys it has to their values, so that `'data' in obj` is        *)
(* membership in its DOMAIN.  Strings that the code concatenates (the      *)
(* endpoint, the query string, JSON text) are sequences of tokens.         *)
(***************************************************************************)
EXTENDS Integers, Sequences, FiniteSets, TLC

(***************************************************************************)
(* Program constants                                                       *)
(***************************************************************************)
BASE_URL == "https://pasta.tldv.io/v1alpha1"

MAX_RETRIES == 3

RETRY_DELAY == 1000

MAX_RETRY_DELAY == 2000

DEFAULT_LIMIT == 50

(***************************************************************************)
(* Bounds of the model                                                     *)
(***************************************************************************)
\* a getMeetings params object sets at most this many of its seven fields
MaxSetFields == 2

(***************************************************************************)
(* JavaScript values                                                       *)
(***************************************************************************)
Undefined == [kind |-> "undefined"]

Null == [kind |-> "null"]

Str(s) == [kind |-> "string", str |-> s]

Num(n) == [kind |-> "number", num |-> n]

Bool(b) == [kind |-> "boolean", bool |-> b]

Arr(items) == [kind |-> "array", items |-> items]

Obj(f) == [kind |-> "object", fields |-> f]

\* obj[key] of JavaScript: undefined when the key is missing or the value is
\* a primitive without that property
Get(v, key) ==
    IF v.kind = "object" /\ key \in DOMAIN v.fields THEN v.fields[key]
    ELSE Undefined

\* `key in v` for a value that passed the typeof 'object' test
HasKey(v, key) == v.kind = "object" /\ key \in DOMAIN v.fields

\* JavaScript truthiness
Truthy(v) ==
    CASE v.kind = "undefined" -> FALSE
      [] v.kind = "null" -> FALSE
      [] v.kind = "string" -> v.str # ""
      [] v.kind = "number" -> v.num # 0
      [] v.kind = "boolean" -> v.bool
      [] OTHER -> TRUE

\* typeof v === 'object' (null included, as in JavaScript)
TypeofObject(v) == v.kind \in {"object", "array", "null"}

(***************************************************************************)
(* The HTTP transport (axios) as the client sees it.  An attempt ends in   *)
(* one outcome: a response (status, decoded body) or no response at all.   *)
(***************************************************************************)
Response(status, data) == [kind |-> "response", status |-> status, data |-> data]

NoResponse(message) == [kind |-> "network", message |-> message]

\* the message axios gives the error it raises for a response whose status
\* its default validateStatus (200 <= status < 300) rejects
StatusMessage(status) ==
    CASE status = 301 -> "Request failed with status code 301"
      [] status = 404 -> "Request failed with status code 404"
      [] status = 429 -> "Request failed with status code 429"
      [] status = 500 -> "Request failed with status code 500"
      [] status = 503 -> "Request failed with status code 503"
      [] OTHER -> "Request failed with status code N"

\* a thrown JavaScript error: every error raised in request() is an Error
JsError(message, isAxios, hasResponse, status) ==
    [message |-> message, isError |-> TRUE, isAxiosError |-> isAxios,
     hasResponse |-> hasResponse, status |-> status]

\* await axios(url, {headers}): resolves with the response or rejects
Axios(outcome) ==
    IF outcome.kind = "response"
    THEN IF outcome.status >= 200 /\ outcome.status < 300
         THEN [resolved |-> TRUE, response |-> outcome]
         ELSE [resolved |-> FALSE,
               error |-> JsError(StatusMessage(outcome.status), TRUE, TRUE,
                                 outcome.status)]
    ELSE [resolved |-> FALSE,
          error |-> JsError(outcome.message, TRUE, FALSE, 0)]

\* the texts of the model that contain the substring 'Network Error'
NetworkErrorTexts == {"Network Error", "Network Error: upstream unavailable"}

\* error.message.includes('Network Error')
IncludesNetworkError(message) == message \in NetworkErrorTexts

(***************************************************************************)
(* TldvApi.request: the try block and the catch block                      *)
(***************************************************************************)
\* response.data.message || 'API request failed', thrown as new Error(...);
\* reading .message of null or undefined is a TypeError.  The message
\* fields of the model's bodies are strings, so String(message) is message.
MessageOfBody(data) ==
    IF data.kind \in {"null", "undefined"}
    THEN JsError("Cannot read properties of null (reading 'message')",
                 FALSE, FALSE, 0)
    ELSE LET m == Get(data, "message")
         IN  JsError(IF Truthy(m) /\ m.kind = "string" THEN m.str
                     ELSE "API request failed",
                     FALSE, FALSE, 0)

\* variant of SuccessEnvelope that wraps every body, also one that has data
SuccessEnvelopeAlwaysWrap(responseData) ==
    Obj([data |-> responseData, error |-> Undefined])

\* the envelope returned on success: pass-through or wrap
SuccessEnvelope(responseData) ==
    IF Truthy(responseData) /\ TypeofObject(responseData)
       /\ HasKey(responseData, "data")
    THEN responseData
    ELSE Obj([data |-> responseData, error |-> Undefined])

\* the envelope returned when the attempt is not retried
ErrorEnvelope(error) ==
    Obj([data |-> Null,
         error |-> Str(IF error.isError THEN error.message
                       ELSE "Unknown error occurred")])

\* the try block: [ok, envelope] when it returns, [ok = FALSE, error] when
\* it throws into the catch block
TryBlock(outcome) ==
    LET r == Axios(outcome)
    IN  IF ~r.resolved THEN [ok |-> FALSE, error |-> r.error]
        ELSE IF r.response.status > 200
             THEN [ok |-> FALSE, error |-> MessageOfBody(r.response.data)]
             ELSE [ok |-> TRUE, envelope |-> SuccessEnvelope(r.response.data)]

ShouldRetry(error, retryCount, maxRetries) ==
    /\ retryCount < maxRetries
    /\ \/ (error.isError /\ IncludesNetworkError(error.message))
       \/ (error.isAxiosError /\ error.hasResponse /\ error.status >= 500)
       \/ (error.isAxiosError /\ error.hasResponse /\ error.status = 429)

RECURSIVE Pow2(_)
Pow2(n) == IF n = 0 THEN 1 ELSE 2 * Pow2(n - 1)

Min(a, b) == IF a < b THEN a ELSE b

\* variant of BackoffDelay without the cap: 1 s, 2 s, 4 s
BackoffDelayUncapped(retryCount) == RETRY_DELAY * Pow2(retryCount)

\* Math.min(RETRY_DELAY * 2 ** retryCount, MAX_RETRY_DELAY)
BackoffDelay(retryCount) == Min(RETRY_DELAY * Pow2(retryCount), MAX_RETRY_DELAY)

(***************************************************************************)
(* Schemas (zod)                                                           *)
(***************************************************************************)
\* variant of TldvConfigSchema without min(1): any string is a credential
TldvConfigSchemaAnyString(config) ==
    LET k == Get(config, "apiKey")
    IN  IF k.kind = "string"
        THEN [success |-> TRUE, value |-> Obj([apiKey |-> k])]
        ELSE [success |-> FALSE, value |-> Undefined]

\* TldvConfigSchema.parse({apiKey}): z.string().min(1)
TldvConfigSchema(config) ==
    LET k == Get(config, "apiKey")
    IN  IF k.kind = "string" /\ k.str # ""
        THEN [success |-> TRUE, value |-> Obj([apiKey |-> k])]
        ELSE [success |-> FALSE, value |-> Undefined]

\* the strings of the model that z.string().datetime() accepts
IsoDateTimes == {"2024-01-01T00:00:00Z", "2024-12-31T23:59:59Z"}

ParamFields ==
    <<"query", "page", "limit", "from", "to", "onlyParticipated", "meetingType">>

ParamFieldSet == {ParamFields[i] : i \in 1..Len(ParamFields)}

\* one field of GetMeetingsParamsSchema applied to a value that is present
FieldValid(field, v) ==
    CASE field = "query" -> v.kind = "string"
      [] field = "page" -> v.kind = "number" /\ v.num > 0
      [] field = "limit" -> v.kind = "number" /\ v.num > 0
      [] field = "from" -> v.kind = "string" /\ v.str \in IsoDateTimes
      [] field = "to" -> v.kind = "string" /\ v.str \in IsoDateTimes
      [] field = "onlyParticipated" -> v.kind = "boolean"
      [] field = "meetingType" ->
            v.kind = "string" /\ v.str \in {"internal", "external"}
      [] OTHER -> FALSE

\* GetMeetingsParamsSchema.parse(params): every field optional, limit
\* defaulting to 50; a violation throws (success = FALSE)
GetMeetingsParamsSchema(params) ==
    IF \A f \in DOMAIN params.fields :
           params.fields[f].kind # "undefined" => FieldValid(f, params.fields[f])
    THEN [success |-> TRUE,
          value |-> Obj([f \in
                           {g \in DOMAIN params.fields :
                                params.fields[g].kind # "undefined"}
                           \cup {"limit"} |->
                         IF Get(params, f).kind = "undefined"
                         THEN Num(DEFAULT_LIMIT)
                         ELSE params.fields[f]])]
    ELSE [success |-> FALSE, value |-> Undefined]

(***************************************************************************)
(* Strings built by the client                                             *)
(***************************************************************************)
DigitChars == <<"0", "1", "2", "3", "4", "5", "6", "7", "8", "9">>

\* Number.prototype.toString of a non-negative integer, one token a digit
RECURSIVE NumberToString(_)
NumberToString(n) ==
    IF n < 10 THEN <<DigitChars[n + 1]>>
    ELSE NumberToString(n \div 10) \o <<DigitChars[(n % 10) + 1]>>

\* the form-urlencoding URLSearchParams applies to a value when printed
UrlEncode(s) ==
    CASE s = "team sync" -> "team+sync"
      [] s = "2024-01-01T00:00:00Z" -> "2024-01-01T00%3A00%3A00Z"
      [] s = "2024-12-31T23:59:59Z" -> "2024-12-31T23%3A59%3A59Z"
      [] OTHER -> s

\* value.toString() followed by the encoding, as tokens
ParamText(v) ==
    CASE v.kind = "number" -> NumberToString(v.num)
      [] v.kind = "boolean" -> IF v.bool THEN <<"true">> ELSE <<"false">>
      [] OTHER -> <<UrlEncode(v.str)>>

\* variant of Appended that tests every field with !== undefined
AppendedWhenDefined(field, validatedParams) ==
    Get(validatedParams, field).kind # "undefined"

\* the test guarding queryParams.append for one field
Appended(field, validatedParams) ==
    IF field = "onlyParticipated"
    THEN Get(validatedParams, field).kind # "undefined"
    ELSE Truthy(Get(validatedParams, field))

\* the URLSearchParams built by getMeetings: the appended (key, value)
\* pairs, in the order of the seven if-statements
RECURSIVE QueryParams(_, _)
QueryParams(validatedParams, i) ==
    IF i > Len(ParamFields) THEN <<>>
    ELSE (IF Appended(ParamFields[i], validatedParams)
          THEN <<[key |-> ParamFields[i],
                  value |-> ParamText(Get(validatedParams, ParamFields[i]))]>>
          ELSE <<>>)
         \o QueryParams(validatedParams, i + 1)

\* URLSearchParams.prototype.toString: key=value joined by &
RECURSIVE QueryString(_)
QueryString(pairs) ==
    IF pairs = <<>> THEN <<>>
    ELSE <<pairs[1].key, "=">> \o pairs[1].value
         \o (IF Len(pairs) > 1 THEN <<"&">> ELSE <<>>)
         \o QueryString(Tail(pairs))

\* the endpoint each operation passes to request()
Endpoint(op, arg) ==
    CASE op = "getMeeting" -> <<"/meetings/", arg.str>>
      [] op = "getTranscript" -> <<"/meetings/", arg.str, "/transcript">>
      [] op = "getHighlights" -> <<"/meetings/", arg.str, "/highlights">>
      [] op = "healthCheck" -> <<"/health">>
      [] op = "getMeetings" ->
            <<"/meetings?">>
            \o QueryString(QueryParams(GetMeetingsParamsSchema(arg).value, 1))

\* whether the operation throws before it reaches request()
ThrowsBeforeRequest(op, arg) ==
    op = "getMeetings" /\ ~GetMeetingsParamsSchema(arg).success

(***************************************************************************)
(* The tool adapter (main)                                                 *)
(***************************************************************************)
\* the catalogue, in the order main() registers the handlers
ToolNames ==
    <<"get-meeting-metadata", "get-transcript", "list-meetings", "get-highlights">>

\* the client operation each registered handler awaits
ToolOperation(tool) ==
    CASE tool = "get-meeting-metadata" -> "getMeeting"
      [] tool = "get-transcript" -> "getTranscript"
      [] tool = "list-meetings" -> "getMeetings"
      [] tool = "get-highlights" -> "getHighlights"

\* the input shape the protocol layer validates before it runs the handler;
\* the handler then receives the parsed value
ToolInputSchema(tool, input) ==
    CASE tool = "get-meeting-metadata" ->
            [success |-> Get(input, "id").kind = "string", value |-> input]
      [] tool = "list-meetings" -> GetMeetingsParamsSchema(input)
      [] OTHER ->
            [success |-> Get(input, "meetingId").kind = "string", value |-> input]

\* the argument the handler passes to the client operation
ToolArgument(tool, input) ==
    CASE tool = "get-meeting-metadata" -> Get(input, "id")
      [] tool = "list-meetings" -> input
      [] OTHER -> Get(input, "meetingId")

\* JSON.stringify: members whose value is undefined are left out, array
\* items that are undefined become null; the text is kept as the document
\* it denotes
RECURSIVE JsonDocument(_)
JsonDocument(v) ==
    CASE v.kind = "object" ->
            Obj([k \in {j \in DOMAIN v.fields : v.fields[j].kind # "undefined"} |->
                    JsonDocument(v.fields[k])])
      [] v.kind = "array" ->
            Arr([i \in DOMAIN v.items |->
                    IF v.items[i].kind = "undefined" THEN Null
                    ELSE JsonDocument(v.items[i])])
      [] OTHER -> v

JsonStringify(v) == [json |-> JsonDocument(v)]

JsonParse(text) == text.json

\* variant of ToolResult that reports an error envelope as its error text
ToolResultBranching(envelope) ==
    IF Truthy(Get(envelope, "error"))
    THEN [content |-> <<[type |-> "text",
                         text |-> JsonStringify(Get(envelope, "error"))]>>]
    ELSE [content |-> <<[type |-> "text", text |-> JsonStringify(envelope)]>>]

\* what a handler returns for the envelope it awaited
ToolResult(envelope) ==
    [content |-> <<[type |-> "text", text |-> JsonStringify(envelope)]>>]

(***************************************************************************)
(* Inputs of the model                                                     *)
(***************************************************************************)
\* process.env.TLDV_API_KEY: absent, empty or set
ApiKeys == {Undefined, Str(""), Str("secret-key")}

MeetingIds == {"m1", "m2"}

\* the values a caller may give each getMeetings field, valid and malformed
ParamFieldValues(field) ==
    CASE field = "query" -> {Str(""), Str("team sync")}
      [] field = "page" -> {Num(-1), Num(2)}
      [] field = "limit" -> {Num(5), Num(10)}
      [] field = "from" -> {Str("2024-01-01T00:00:00Z"), Str("yesterday")}
      [] field = "to" -> {Str("2024-12-31T23:59:59Z")}
      [] field = "onlyParticipated" -> {Bool(TRUE), Bool(FALSE)}
      [] field = "meetingType" -> {Str("external"), Str("weekly")}

AllParamValues == UNION {ParamFieldValues(f) : f \in ParamFieldSet}

\* params objects that set at most MaxSetFields fields
ParamsInputs ==
    {Obj(f) : f \in UNION {
        {g \in [S -> AllParamValues] : \A k \in S : g[k] \in ParamFieldValues(k)} :
        S \in {T \in SUBSET ParamFieldSet : Cardinality(T) <= MaxSetFields}}}

\* (operation, argument) pairs a caller of the client may pass
ClientInputs ==
    {[op |-> o, arg |-> Str(m)] :
        o \in {"getMeeting", "getTranscript", "getHighlights"}, m \in MeetingIds}
    \cup {[op |-> "healthCheck", arg |-> Undefined]}
    \cup {[op |-> "getMeetings", arg |-> a] : a \in ParamsInputs}

\* (tool, input) pairs the protocol layer may receive
ToolInputs ==
    {[tool |-> "get-meeting-metadata", input |-> Obj([id |-> Str(m)])] :
        m \in MeetingIds}
    \cup {[tool |-> t, input |-> Obj([meetingId |-> Str(m)])] :
            t \in {"get-transcript", "get-highlights"}, m \in MeetingIds}
    \cup {[tool |-> "list-meetings", input |-> a] : a \in ParamsInputs}

\* remote bodies: JSON objects over the keys data, error and message, a bare
\* meeting, and bodies that are no object
ObjectBodies ==
    {Obj(f) : f \in UNION {
        {g \in [S -> {Null, Arr(<<Str("sentence")>>), Str("upstream failure"),
                      Str("M"), Str(""), Str("Network Error")}] :
            /\ "data" \in S => g["data"] \in {Null, Arr(<<Str("sentence")>>)}
            /\ "error" \in S => g["error"] = Str("upstream failure")
            /\ "message" \in S =>
                  g["message"] \in {Str("M"), Str(""), Str("Network Error")}} :
        S \in SUBSET {"data", "error", "message"}}}

Bodies ==
    ObjectBodies
    \cup {Obj([id |-> Str("m1"), name |-> Str("Standup")])}
    \cup {Null, Str(""), Str("OK"), Arr(<<Str("sentence")>>)}

Statuses == {200, 201, 404, 429, 503}

NetworkMessages ==
    {"Network Error", "connect ECONNREFUSED 127.0.0.1:443",
     "getaddrinfo ENOTFOUND pasta.tldv.io"}

Outcomes ==
    {Response(st, b) : st \in Statuses, b \in Bodies}
    \cup {NoResponse(m) : m \in NetworkMessages}

(***************************************************************************)
(* State                                                                   *)
(***************************************************************************)
VARIABLES
    env,         \* process.env.TLDV_API_KEY
    mainPc,      \* the statement main() is at
    client,      \* the TldvApi instance main() holds, or NoClient
    tools,       \* the tool names whose handlers are registered
    connected,   \* the protocol server is connected to its transport
    log,         \* the lines written by the logger
    httpIssued,  \* an HTTP request has been issued by this process
    inv,         \* the operations in progress, by slot
    hist         \* by slot, the events its operation has seen since it was
                 \* invoked: HTTP outcomes and timer firings, in order
                 \* (recorded by the concurrent specification only)

vars == <<env, mainPc, client, tools, connected, log, httpIssued, inv, hist>>

NoClient == [kind |-> "none"]

NoOutcome == [kind |-> "none"]

\* a slot in which no operation was started
Idle ==
    [phase |-> "idle", via |-> "", op |-> "", arg |-> Undefined,
     endpoint |-> <<>>, request |-> Undefined, retryCount |-> 0,
     requests |-> 0, delay |-> 0, waited |-> 0, last |-> NoOutcome,
     result |-> Undefined, thrown |-> "", opCalls |-> 0, content |-> <<>>]

\* the slots of the sequential specification
SeqSlots == {1}

Init ==
    /\ env \in ApiKeys
    /\ mainPc = "construct"
    /\ client = NoClient
    /\ tools = {}
    /\ connected = FALSE
    /\ log = <<>>
    /\ httpIssued = FALSE
    /\ inv = [c \in SeqSlots |-> Idle]
    /\ hist = [c \in SeqSlots |-> <<>>]

(***************************************************************************)
(* Startup: main()                                                         *)
(***************************************************************************)
LogLine(level, message) == [level |-> level, message |-> message]

\* new TldvApi(config): the instance, or NoClient when the constructor throws
TldvApi(config) ==
    LET validatedConfig == TldvConfigSchema(config)
    IN  IF validatedConfig.success
        THEN [kind |-> "client",
              apiKey |-> Get(validatedConfig.value, "apiKey").str,
              baseUrl |-> BASE_URL,
              headers |-> [h \in {"x-api-key", "Content-Type"} |->
                             IF h = "x-api-key"
                             THEN Get(validatedConfig.value, "apiKey").str
                             ELSE "application/json"]]
        ELSE NoClient

\* main() constructs the client first; a throw ends main() and is logged by
\* the catch handler, which leaves the process running
MainConstruct ==
    /\ mainPc = "construct"
    /\ LET api == TldvApi(Obj([apiKey |-> env]))
       IN  IF api # NoClient
           THEN /\ client' = api
                /\ mainPc' = "newServer"
                /\ log' = Append(log, LogLine("INFO", "Initializing TLDV API..."))
           ELSE /\ client' = client
                /\ mainPc' = "fatal"
                /\ log' = log \o <<LogLine("INFO", "Initializing TLDV API..."),
                                   LogLine("ERROR", "Fatal error in main()")>>
    /\ UNCHANGED <<env, tools, connected, httpIssued, inv>>

MainNewServer ==
    /\ mainPc = "newServer"
    /\ mainPc' = "registerTools"
    /\ log' = Append(log, LogLine("INFO", "Starting MCP server..."))
    /\ UNCHANGED <<env, client, tools, connected, httpIssued, inv>>

\* the four server.tool(...) calls, one a step, in source order
MainRegisterTool ==
    /\ mainPc = "registerTools"
    /\ LET i == Cardinality(tools) + 1
       IN  /\ tools' = tools \cup {ToolNames[i]}
           /\ mainPc' = IF i = Len(ToolNames) THEN "newTransport"
                        ELSE "registerTools"
    /\ UNCHANGED <<env, client, connected, log, httpIssued, inv>>

MainNewTransport ==
    /\ mainPc = "newTransport"
    /\ mainPc' = "connect"
    /\ log' = Append(log, LogLine("INFO", "Initializing StdioServerTransport..."))
    /\ UNCHANGED <<env, client, tools, connected, httpIssued, inv>>

MainConnect ==
    /\ mainPc = "connect"
    /\ mainPc' = "connected"
    /\ connected' = TRUE
    /\ log' = Append(log, LogLine("INFO", "Connecting to MCP server..."))
    /\ UNCHANGED <<env, client, tools, httpIssued, inv>>

(***************************************************************************)
(* Client operations and tool calls                                        *)
(***************************************************************************)
\* the request axios is given: url and headers
HttpRequest(api, endpoint) ==
    [url |-> <<api.baseUrl>> \o endpoint, headers |-> api.headers]

\* a client operation up to its first await: it throws (getMeetings on
\* malformed params) or issues the first HTTP request
StartOperation(api, via, op, arg) ==
    IF ThrowsBeforeRequest(op, arg)
    THEN [Idle EXCEPT !.phase = "rejected", !.via = via, !.op = op,
                      !.arg = arg, !.thrown = "ZodError", !.opCalls = 1]
    ELSE [Idle EXCEPT !.phase = "inflight", !.via = via, !.op = op,
                      !.arg = arg, !.endpoint = Endpoint(op, arg),
                      !.request = HttpRequest(api, Endpoint(op, arg)),
                      !.requests = 1, !.opCalls = 1]

Free(c) == inv[c].phase = "idle"

\* a caller of the client invokes one of its five operations
Invoke(c, in) ==
    /\ mainPc = "connected"
    /\ client # NoClient
    /\ Free(c)
    /\ inv' = [inv EXCEPT ![c] = StartOperation(client, "client", in.op, in.arg)]
    /\ httpIssued' = (httpIssued \/ inv'[c].requests > 0)
    /\ UNCHANGED <<env, mainPc, client, tools, connected, log>>

\* the protocol layer dispatches a call to a registered handler, after
\* validating the input against the tool's declared shape
ToolCall(c, call) ==
    /\ connected
    /\ call.tool \in tools
    /\ Free(c)
    /\ ToolInputSchema(call.tool, call.input).success
    /\ LET input == ToolInputSchema(call.tool, call.input).value
       IN  inv' = [inv EXCEPT ![c] =
                      StartOperation(client, call.tool, ToolOperation(call.tool),
                                     ToolArgument(call.tool, input))]
    /\ httpIssued' = (httpIssued \/ inv'[c].requests > 0)
    /\ UNCHANGED <<env, mainPc, client, tools, connected, log>>

\* the operation's promise resolves with an envelope; a tool handler that
\* awaited it returns its content
Settle(r, envelope) ==
    [r EXCEPT !.phase = "resolved", !.result = envelope,
              !.content = IF r.via = "client" THEN <<>>
                          ELSE ToolResult(envelope).content]

\* request() from the point its await of axios completes
AfterAttempt(r, outcome) ==
    LET t == TryBlock(outcome)
    IN  IF t.ok THEN Settle(r, t.envelope)
        ELSE IF ShouldRetry(t.error, r.retryCount, MAX_RETRIES)
             THEN [r EXCEPT !.phase = "backoff",
                            !.delay = BackoffDelay(r.retryCount)]
             ELSE Settle(r, ErrorEnvelope(t.error))

\* the activation after its attempt ended with the outcome
Observed(r, outcome) == [AfterAttempt(r, outcome) EXCEPT !.last = outcome]

\* the activation after its backoff timer fired: the recursive call with
\* retryCount + 1 has issued the next HTTP request
NextAttempt(r) ==
    [r EXCEPT !.phase = "inflight",
              !.retryCount = r.retryCount + 1,
              !.requests = r.requests + 1,
              !.waited = r.waited + r.delay,
              !.last = NoOutcome]

\* variant of HttpResponse in which the attempt count is kept on the client
\* instance, shared by the operations in progress
HttpResponseSharedCount(c, outcome) ==
    /\ inv[c].phase = "inflight"
    /\ LET shared == CHOOSE n \in {inv[d].retryCount : d \in DOMAIN inv} :
                         \A d \in DOMAIN inv : inv[d].retryCount <= n
       IN  inv' = [inv EXCEPT ![c] =
                      Observed([inv[c] EXCEPT !.retryCount = shared], outcome)]
    /\ UNCHANGED <<env, mainPc, client, tools, connected, log, httpIssued>>

\* the HTTP attempt in flight ends with an outcome
HttpResponse(c, outcome) ==
    /\ inv[c].phase = "inflight"
    /\ inv' = [inv EXCEPT ![c] = Observed(inv[c], outcome)]
    /\ UNCHANGED <<env, mainPc, client, tools, connected, log, httpIssued>>

\* the backoff timer fires: request() recurses with retryCount + 1 and
\* issues the next HTTP request
BackoffElapsed(c) ==
    /\ inv[c].phase = "backoff"
    /\ inv' = [inv EXCEPT ![c] = NextAttempt(inv[c])]
    /\ UNCHANGED <<env, mainPc, client, tools, connected, log, httpIssued>>

\* the caller has consumed the settled promise (the envelope, the tool
\* result or the exception): nothing of the operation is kept
Discard(c) ==
    /\ inv[c].phase \in {"resolved", "rejected"}
    /\ inv' = [inv EXCEPT ![c] = Idle]
    /\ UNCHANGED <<env, mainPc, client, tools, connected, log, httpIssued>>

Next ==
    \/ MainConstruct /\ UNCHANGED hist
    \/ MainNewServer /\ UNCHANGED hist
    \/ MainRegisterTool /\ UNCHANGED hist
    \/ MainNewTransport /\ UNCHANGED hist
    \/ MainConnect /\ UNCHANGED hist
    \/ \E c \in DOMAIN inv, in \in ClientInputs :
          Invoke(c, in) /\ UNCHANGED hist
    \/ \E c \in DOMAIN inv, call \in ToolInputs :
          ToolCall(c, call) /\ UNCHANGED hist
    \/ \E c \in DOMAIN inv, outcome \in Outcomes :
          HttpResponse(c, outcome) /\ UNCHANGED hist
    \/ \E c \in DOMAIN inv : BackoffElapsed(c) /\ UNCHANGED hist
    \/ \E c \in DOMAIN inv : Discard(c) /\ UNCHANGED hist

Spec == Init /\ [][Next]_vars

(***************************************************************************)
(* Concurrent invocations: the protocol layer may dispatch a call while    *)
(* others are suspended on their HTTP response or backoff timer.  Every    *)
(* slot records the events its own operation has seen.                     *)
(***************************************************************************)
\* the number of operations that may be in progress at once
NumSlots == 2

ConcSlots == 1..NumSlots

ConcClientInputs ==
    {[op |-> "healthCheck", arg |-> Undefined]}

ConcToolInputs ==
    {[tool |-> "get-meeting-metadata", input |-> Obj([id |-> Str("m1")])],
     [tool |-> "list-meetings",
      input |-> Obj([meetingType |-> Str("external"), limit |-> Num(5)])]}

ConcOutcomes ==
    {Response(200, Obj([id |-> Str("m1"), name |-> Str("Standup")])),
     Response(503, Obj([message |-> Str("M")])),
     Response(404, Obj([message |-> Str("M")])),
     NoResponse("connect ECONNREFUSED 127.0.0.1:443")}

TimerFired == [kind |-> "timer"]

Restarted(c) == hist' = [hist EXCEPT ![c] = <<>>]

Recorded(c, event) == hist' = [hist EXCEPT ![c] = Append(@, event)]

InitConc ==
    /\ env \in ApiKeys
    /\ mainPc = "construct"
    /\ client = NoClient
    /\ tools = {}
    /\ connected = FALSE
    /\ log = <<>>
    /\ httpIssued = FALSE
    /\ inv = [c \in ConcSlots |-> Idle]
    /\ hist = [c \in ConcSlots |-> <<>>]

NextConc ==
    \/ MainConstruct /\ UNCHANGED hist
    \/ MainNewServer /\ UNCHANGED hist
    \/ MainRegisterTool /\ UNCHANGED hist
    \/ MainNewTransport /\ UNCHANGED hist
    \/ MainConnect /\ UNCHANGED hist
    \/ \E c \in DOMAIN inv, in \in ConcClientInputs :
          Invoke(c, in) /\ Restarted(c)
    \/ \E c \in DOMAIN inv, call \in ConcToolInputs :
          ToolCall(c, call) /\ Restarted(c)
    \/ \E c \in DOMAIN inv, outcome \in ConcOutcomes :
          HttpResponse(c, outcome) /\ Recorded(c, outcome)
    \/ \E c \in DOMAIN inv : BackoffElapsed(c) /\ Recorded(c, TimerFired)
    \/ \E c \in DOMAIN inv : Discard(c) /\ Restarted(c)

SpecConc == InitConc /\ [][NextConc]_vars

(***************************************************************************)
(* Vocabulary of the properties                                            *)
(***************************************************************************)
Slots == DOMAIN inv

\* the specification's failure classes, read off the outcome of an attempt
IsSuccess(o) == o.kind = "response" /\ o.status = 200

TransientFailure(o) ==
    \/ o.kind = "network"
    \/ o.kind = "response" /\ (o.status >= 500 \/ o.status = 429)

TerminalFailure(o) ==
    o.kind = "response" /\ o.status > 200 /\ o.status < 500 /\ o.status # 429

\* an envelope carries a payload / carries an error description
HasPayload(e) == Get(e, "data").kind \notin {"null", "undefined"}

HasError(e) == Get(e, "error").kind \notin {"null", "undefined"}

\* the envelope request() makes of one attempt's outcome
EnvelopeOf(o) ==
    IF TryBlock(o).ok THEN TryBlock(o).envelope
    ELSE ErrorEnvelope(TryBlock(o).error)

\* a getMeetings params object is malformed
Malformed(params) ==
    \E f \in DOMAIN params.fields : ~FieldValid(f, params.fields[f])

\* the attempt bound alone
AttemptsBounded ==
    \A c \in Slots :
        /\ inv[c].requests <= MAX_RETRIES + 1
        /\ inv[c].retryCount <= MAX_RETRIES
        /\ inv[c].phase = "resolved" => inv[c].result = EnvelopeOf(inv[c].last)

(***************************************************************************)
(* C1: no client operation lets an exception escape: every operation that *)
(* was started ends in a returned envelope, and getMeetings with malformed *)
(* params returns an error envelope (data null, error text) having issued   *)
(* no HTTP request and made no retry.                                      *)
(***************************************************************************)
C1_NoExceptionEscapes ==
    \A c \in Slots :
        /\ inv[c].phase # "rejected"
        /\ (inv[c].op = "getMeetings" /\ inv[c].phase # "idle"
            /\ Malformed(inv[c].arg)) =>
              /\ inv[c].phase = "resolved"
              /\ Get(inv[c].result, "data") = Null
              /\ Get(inv[c].result, "error").kind = "string"
              /\ inv[c].requests = 0
              /\ inv[c].retryCount = 0

(***************************************************************************)
(* C2: an attempt is retried only if it failed with a network-level error, *)
(* an HTTP 5xx or an HTTP 429: an operation waiting to retry has just seen *)
(* such a failure, whatever the body of the response said.                 *)
(***************************************************************************)
C2_OnlyTransientRetried ==
    \A c \in Slots :
        inv[c].phase = "backoff" => TransientFailure(inv[c].last)

(***************************************************************************)
(* C3: every transient failure (network-level error with any message, 5xx, *)
(* 429) of an attempt made with attempt count below 3 is retried: an       *)
(* operation that returned on a transient failure had used up its retries. *)
(***************************************************************************)
C3_TransientRetried ==
    \A c \in Slots :
        (inv[c].phase = "resolved" /\ TransientFailure(inv[c].last)) =>
            inv[c].retryCount >= MAX_RETRIES

(***************************************************************************)
(* C4: an operation in the HTTP phase makes at most 4 requests with        *)
(* attempt count at most 3; it returns the envelope of the first attempt   *)
(* that succeeds or fails terminally (no further attempt follows such an   *)
(* attempt, and no earlier return happens), and when all 4 attempts fail   *)
(* transiently it returns data null with the final attempt's message.      *)
(***************************************************************************)
C4_BoundedAttempts ==
    \A c \in Slots :
        /\ inv[c].requests <= MAX_RETRIES + 1
        /\ inv[c].retryCount <= MAX_RETRIES
        /\ inv[c].phase = "backoff" => TransientFailure(inv[c].last)
        /\ inv[c].phase = "resolved" =>
              /\ inv[c].result = EnvelopeOf(inv[c].last)
              /\ \/ IsSuccess(inv[c].last)
                 \/ TerminalFailure(inv[c].last)
                 \/ /\ TransientFailure(inv[c].last)
                    /\ inv[c].requests = MAX_RETRIES + 1
                    /\ Get(inv[c].result, "data") = Null
                    /\ Get(inv[c].result, "error").kind = "string"

(***************************************************************************)
(* C5: when the attempt that ends an operation received a response with a  *)
(* status from 201 to 599 whose body has message "M", the error text of    *)
(* the returned envelope is exactly "M"; without a message field it is the *)
(* generic failure text.                                                   *)
(***************************************************************************)
C5_ErrorTextIsBodyMessage ==
    \A c \in Slots :
        (/\ inv[c].phase = "resolved"
         /\ inv[c].last.kind = "response"
         /\ inv[c].last.status >= 201 /\ inv[c].last.status <= 599) =>
            LET body == inv[c].last.data
                m == Get(body, "message")
            IN  /\ (m.kind = "string" /\ m.str # "") =>
                      Get(inv[c].result, "error") = m
                /\ (body.kind = "object" /\ "message" \notin DOMAIN body.fields) =>
                      Get(inv[c].result, "error") \in
                          {Str("API request failed"),
                           Str(StatusMessage(inv[c].last.status))}

(***************************************************************************)
(* C6: a status-200 response whose body is an object with a data field is  *)
(* returned as the envelope unchanged; a status-200 response with any      *)
(* other body Y is returned as the envelope {data: Y} with no error.       *)
(***************************************************************************)
C6_PassThroughOrWrap ==
    \A c \in Slots :
        (/\ inv[c].phase = "resolved"
         /\ inv[c].last.kind = "response"
         /\ inv[c].last.status = 200) =>
            LET body == inv[c].last.data
                e == inv[c].result
            IN  IF body.kind = "object" /\ "data" \in DOMAIN body.fields
                THEN e = body
                ELSE /\ e.kind = "object"
                     /\ {k \in DOMAIN e.fields : e.fields[k] # Undefined} = {"data"}
                     /\ e.fields["data"] = body

\* getTranscript received 200 with a body that has data and more: the
\* envelope is that body
C6_Witness ==
    \E c \in Slots :
        /\ inv[c].phase = "resolved"
        /\ inv[c].op = "getTranscript"
        /\ inv[c].last = Response(200, Obj([data |-> Arr(<<Str("sentence")>>),
                                            message |-> Str("M")]))
        /\ inv[c].result = inv[c].last.data

(***************************************************************************)
(* C7: every returned envelope has exactly one outcome populated: a        *)
(* payload with no error, or data null with an error description; never    *)
(* both, never neither.                                                    *)
(***************************************************************************)
C7_ExactlyOneOutcome ==
    \A c \in Slots :
        inv[c].phase = "resolved" =>
            (HasPayload(inv[c].result) /\ ~HasError(inv[c].result))
            \/ (~HasPayload(inv[c].result) /\ HasError(inv[c].result))

(***************************************************************************)
(* C8: the query string of getMeetings holds a parameter if and only if    *)
(* the caller set it, except limit, which is always present and is 50 when *)
(* the caller left it unset.                                               *)
(***************************************************************************)
\* the keys of a query string: the tokens followed by "="
QueryKeys(endpoint) ==
    {endpoint[i] : i \in {j \in 1..(Len(endpoint) - 1) : endpoint[j + 1] = "="}}

\* the operation is getMeetings and has built its request
BuiltQuery(c) ==
    inv[c].op = "getMeetings" /\ inv[c].phase \in {"inflight", "backoff", "resolved"}

C8_ParamIffSet ==
    \A c \in Slots :
        BuiltQuery(c) =>
            QueryKeys(inv[c].endpoint) = DOMAIN inv[c].arg.fields \cup {"limit"}

\* as amended: a parameter is present iff the caller set it to a value that
\* is not the empty string; limit is always present, 50 when unset; the
\* three queries the specification names are exactly as it gives them
C8_ParamIffSetNonEmpty ==
    \A c \in Slots :
        BuiltQuery(c) =>
            LET a == inv[c].arg
                e == inv[c].endpoint
            IN  /\ QueryKeys(e) =
                      {f \in DOMAIN a.fields : a.fields[f] # Str("")} \cup {"limit"}
                /\ Cardinality({i \in 1..Len(e) : e[i] = "="}) =
                      Cardinality(QueryKeys(e))
                /\ "limit" \notin DOMAIN a.fields =>
                      \E i \in 1..Len(e) :
                          SubSeq(e, i, i + 3) = <<"limit", "=", "5", "0">>
                          /\ (i + 3 = Len(e) \/ e[i + 4] = "&")
                /\ a = Obj(<<>>) => e = <<"/meetings?", "limit", "=", "5", "0">>
                /\ a = Obj([page |-> Num(2), limit |-> Num(10)]) =>
                      e = <<"/meetings?", "page", "=", "2", "&",
                            "limit", "=", "1", "0">>
                /\ a = Obj([meetingType |-> Str("external"), limit |-> Num(5)]) =>
                      e = <<"/meetings?", "limit", "=", "5", "&",
                            "meetingType", "=", "external">>

\* getMeetings({query: ""}) requested exactly limit=50
C8_Witness ==
    \E c \in Slots :
        /\ inv[c].op = "getMeetings"
        /\ inv[c].phase = "inflight"
        /\ inv[c].arg = Obj([query |-> Str("")])
        /\ inv[c].endpoint = <<"/meetings?", "limit", "=", "5", "0">>

(***************************************************************************)
(* C9: a tool invocation calls the matching client operation exactly once  *)
(* and returns exactly one text content item, the JSON serialization of    *)
(* the envelope the client returned, for success and error envelopes       *)
(* alike: parsing the text yields the envelope's fields.                   *)
(***************************************************************************)
C9_AdapterSerializesEnvelope ==
    \A c \in Slots :
        (inv[c].via # "client" /\ inv[c].phase # "idle") =>
            /\ inv[c].opCalls = 1
            /\ inv[c].op =
                  (CASE inv[c].via = "get-meeting-metadata" -> "getMeeting"
                     [] inv[c].via = "get-transcript" -> "getTranscript"
                     [] inv[c].via = "list-meetings" -> "getMeetings"
                     [] inv[c].via = "get-highlights" -> "getHighlights")
            /\ inv[c].phase # "rejected"
            /\ inv[c].phase # "resolved" => inv[c].content = <<>>
            /\ inv[c].phase = "resolved" =>
                  /\ Len(inv[c].content) = 1
                  /\ inv[c].content[1].type = "text"
                  /\ LET parsed == JsonParse(inv[c].content[1].text)
                     IN  /\ parsed.kind = "object"
                         /\ \A k \in DOMAIN parsed.fields \cup DOMAIN inv[c].result.fields :
                                Get(parsed, k) = Get(inv[c].result, k)

\* get-meeting-metadata {id: "m1"} against a stub returning the meeting m1
C9_Witness ==
    \E c \in Slots :
        /\ inv[c].via = "get-meeting-metadata"
        /\ inv[c].arg = Str("m1")
        /\ inv[c].phase = "resolved"
        /\ inv[c].last = Response(200, Obj([id |-> Str("m1"), name |-> Str("Standup")]))
        /\ Get(Get(JsonParse(inv[c].content[1].text), "data"), "id") = Str("m1")

(***************************************************************************)
(* C10: with an empty or absent credential the client is never             *)
(* constructed: main() fails at construction, before any HTTP request,     *)
(* before any tool handler is registered and before the server connects,   *)
(* so no tool call is ever accepted.                                       *)
(***************************************************************************)
C10_NoCredentialNoStartup ==
    (env = Undefined \/ env = Str("")) =>
        /\ client = NoClient
        /\ mainPc \in {"construct", "fatal"}
        /\ tools = {}
        /\ ~connected
        /\ ~httpIssued
        /\ \A c \in Slots : inv[c] = Idle

\* startup without a credential has failed and was logged
C10_Witness ==
    /\ env = Undefined
    /\ mainPc = "fatal"
    /\ \E i \in 1..Len(log) : log[i] = LogLine("ERROR", "Fatal error in main()")

(***************************************************************************)
(* C11: within one operation attempts are strictly sequential with backoff *)
(* between them: at most one HTTP request of the operation is in flight,   *)
(* attempt k+1 is issued only after attempt k's failure was observed and a *)
(* wait of min(1000 * 2^k, 2000) ms has elapsed (1000 after attempt 0,     *)
(* 2000 after attempts 1 and 2), the attempt count grows by one per retry, *)
(* and two 503 failures followed by a success return the success envelope  *)
(* after waits totalling 3000 ms.                                          *)
(***************************************************************************)
\* the wait the claim gives after attempt k
ExpectedBackoff(k) == IF k = 0 THEN 1000 ELSE 2000

RECURSIVE TotalBackoff(_)
TotalBackoff(k) == IF k = 0 THEN 0 ELSE TotalBackoff(k - 1) + ExpectedBackoff(k - 1)

\* the HTTP outcomes, and the timer firings, among the events of a history
OutcomeIndexes(h) == {i \in 1..Len(h) : h[i] # TimerFired}

TimerIndexes(h) == {i \in 1..Len(h) : h[i] = TimerFired}

InHttpPhase(c) == inv[c].phase \in {"inflight", "backoff", "resolved"}

RECURSIVE Run(_, _)
Run(r, h) ==
    IF h = <<>> THEN r
    ELSE Run(IF Head(h) = TimerFired THEN NextAttempt(r)
             ELSE Observed(r, Head(h)),
             Tail(h))

C12_InvocationsIndependent ==
    /\ client \in {NoClient, TldvApi(Obj([apiKey |-> env]))}
    /\ \A c \in Slots :
          IF inv[c].phase = "idle" THEN inv[c] = Idle /\ hist[c] = <<>>
          ELSE inv[c] =
                  Run(StartOperation(TldvApi(Obj([apiKey |-> env])),
                                     inv[c].via, inv[c].op, inv[c].arg),
                      hist[c])

\* two invocations in progress at once, at different attempt counts
C12_Witness ==
    \E c, d \in Slots :
        /\ c # d
        /\ inv[c].phase = "backoff" /\ inv[c].retryCount = 2
        /\ inv[d].phase = "inflight" /\ inv[d].retryCount = 1
        /\ inv[c].op # inv[d].op

====
